---------------------------- MODULE Spec2Model ----------------------------
(***************************************************************************)
(* Physical-memory and heap bootstrap of the AkjoOS kernel:                *)
(*   kernel/src/internal/memory.rs  get_usable_regions (the region scan)   *)
(*   kernel/src/internal/heap.rs    the two frame allocators, the page     *)
(*                                  mapping of a heap window, HeapManager  *)
(*   kernel/src/main.rs             kernel_main's use of them              *)
(*   kernel/src/internal/idt.rs     the interrupt handlers that allocate   *)
(*   kernel/src/internal/acpi.rs    physical to virtual addresses          *)
(*   kernel/src/api/event.rs        the queued EventDispatcher             *)
(*                                                                         *)
(* Addresses are byte addresses.  The heap windows and the page-table      *)
(* fan-out are scaled down (InitialHeapPages, MainHeapPages,               *)
(* EntriesPerTable) so that the state space is finite and small; the frame *)
(* size is the program's 4096.                                             *)
(***************************************************************************)
EXTENDS Integers, Sequences, FiniteSets, TLC

VARIABLES
    memory_regions,         \* boot_info.memory_regions: Seq of [start, end, kind]
    simple_heap_allocator,  \* SimpleHeapFrameAllocator { next }
    frame_allocator,        \* HeapFrameAllocator { usable_frames, next }; made = FALSE before new()
    issued,                 \* history: what every allocate_frame call returned, per source
    page_table,             \* the mapper: page tables created, pages mapped, TLB entries flushed,
                            \* and the order in which pages were mapped and flushed
    map_log,                \* history: outcome of init_initial_heap / init_main_heap
    ALLOCATOR,              \* static ALLOCATOR: HeapManager { initial_heap, main_heap, initialized }
    lock,                   \* the spin lock of each LockedHeap: "free" or the context holding it
    ctx,                    \* main line and interrupt handler: where each is inside alloc/dealloc
    live,                   \* blocks handed out by alloc and not yet passed to dealloc
    alloc_log,              \* history: every completed alloc call
    cpu,                    \* interrupts enabled, halted, calls made so far
    translation,            \* one physical-to-virtual translation: its arguments and outcome
    EVENT_DISPATCHER,       \* EventDispatcher { handlers, queue, new_event } and its spin locks
    call_stack,             \* the dispatch() calls in progress, innermost last
    event_log               \* history: events pushed, registrations, deliveries per handler

frame_vars == <<memory_regions, simple_heap_allocator, frame_allocator, issued>>
kernel_vars == <<page_table, map_log, ALLOCATOR, lock, ctx, live, alloc_log, cpu>>
event_vars == <<EVENT_DISPATCHER, call_stack, event_log>>
service_vars == <<translation, EVENT_DISPATCHER, call_stack, event_log>>
vars == <<memory_regions, simple_heap_allocator, frame_allocator, issued,
          page_table, map_log, ALLOCATOR, lock, ctx, live, alloc_log, cpu,
          translation, EVENT_DISPATCHER, call_stack, event_log>>

(***************************** bounds **************************************)
\* longest memory map
MaxRegions == 2
\* allocate_frame calls explored after a source has run dry
MaxExhaustedCalls == 2
\* entries of one page table (512 on x86_64)
EntriesPerTable == 2
\* pages of the bootstrap window (INITIAL_HEAP_SIZE / 4096 = 512 in the kernel)
InitialHeapPages == 2
\* pages of the main window (MAIN_HEAP_SIZE / 4096 = 16384 in the kernel)
MainHeapPages == 3
\* alloc calls the main line makes
MaxAllocs == 2
\* init_allocator() calls
MaxActivations == 2
\* interrupts delivered
MaxInterrupts == 1
\* largest starting cursor of the two sources stepped side by side
MaxStartCursor == 2
\* width of an address in bits (u64: 64 in the kernel)
AddressBits == 8
\* implemented bits of a virtual address (48 on x86_64): bit VirtualBits - 1 is
\* the sign bit, the bits above it copy it in a canonical address
VirtualBits == 6
\* event handlers that can be registered
MaxHandlers == 2
\* push() calls
MaxEvents == 2
\* dispatch() calls nested in one another (a handler calling dispatch())
MaxDispatchDepth == 2

(************************** program constants ******************************)
\* the 4 KiB frame / page size (Size4KiB; the literals 4096 of get_usable_regions)
FrameSize == 4096

\* Option::None of allocate_frame (frames are addresses >= 0)
None == -1

(**************************** memory maps **********************************)
Region(s, e, k) == [start |-> s, end |-> e, kind |-> k]

\* The regions the maps are built from: usable aligned regions that overlap
\* each other, regions of another kind, usable regions with an unaligned
\* start or end, and regions large enough to back the heap windows.
CandidateRegions ==
    { Region(0, 2 * FrameSize, "Usable"),
      Region(FrameSize, 3 * FrameSize, "Usable"),
      Region(FrameSize, 2 * FrameSize, "Bootloader"),
      Region(512, 2 * FrameSize, "Usable"),
      Region(3 * FrameSize, 4 * FrameSize + 512, "Usable"),
      Region(8 * FrameSize, 16 * FrameSize, "Usable"),
      Region(20 * FrameSize, 36 * FrameSize, "Usable") }

\* every map of at most MaxRegions regions, in any order, no region listed twice
MemoryMaps ==
    { m \in UNION { [1..n -> CandidateRegions] : n \in 0..MaxRegions } :
        \A i, j \in DOMAIN m : i # j => m[i] # m[j] }

\* The maps the kernel is booted on: no memory, too little for the bootstrap
\* window (failing inside map_to, and at a page's own frame), enough for the
\* bootstrap window only, enough for both windows, enough for both windows in
\* two usable regions that overlap, and one usable region of twice as many
\* frames as 8-byte entries fit into the bootstrap window.
KernelMaps ==
    { <<>>,
      <<Region(0, 2 * FrameSize, "Usable")>>,
      <<Region(0, 2 * FrameSize, "Usable"), Region(FrameSize, 3 * FrameSize, "Usable")>>,
      <<Region(8 * FrameSize, 16 * FrameSize, "Usable")>>,
      <<Region(20 * FrameSize, 36 * FrameSize, "Usable")>>,
      <<Region(8 * FrameSize, 16 * FrameSize, "Usable"),
        Region(12 * FrameSize, 20 * FrameSize, "Usable")>>,
      <<Region(0, 2 * ((InitialHeapPages * FrameSize) \div 8) * FrameSize, "Usable")>> }

(************************ memory.rs: the region scan ***********************)
\* PhysFrame::containing_address: the address aligned down to the frame size
containing_address(addr) == addr - (addr % FrameSize)

\* the two .filter() stages of get_usable_regions
region_filter_nokind(region) ==
    region.start % FrameSize = 0 /\ region.end % FrameSize = 0

region_filter(region) ==
    /\ region.kind = "Usable"
    /\ region.start % FrameSize = 0 /\ region.end % FrameSize = 0

\* (region.start..region.end).step_by(4096) mapped through containing_address:
\* the addresses addr, addr + 4096, .. below end
region_frames(addr, end) ==
    LET count == IF addr >= end THEN 0 ELSE (end - addr + FrameSize - 1) \div FrameSize
    IN  [i \in 1..count |-> containing_address(addr + (i - 1) * FrameSize)]

\* filter + map + flat_map over the regions in map order
RECURSIVE flat_frames(_)
flat_frames(regions) ==
    IF regions = <<>> THEN <<>>
    ELSE (IF region_filter(Head(regions))
            THEN region_frames(Head(regions).start, Head(regions).end)
            ELSE <<>>)
         \o flat_frames(Tail(regions))

\* get_usable_regions(memory_regions, skip): the frame sequence with its first
\* `skip` elements removed (.skip(skip))
get_usable_regions_offbyone(regions, skip) ==
    LET all == flat_frames(regions)
    IN  SubSeq(all, skip + 2, Len(all))

get_usable_regions(regions, skip) ==
    LET all == flat_frames(regions)
    IN  SubSeq(all, skip + 1, Len(all))

\* Iterator::next() on the scan: the first element or None
first_of(seq) == IF seq = <<>> THEN None ELSE Head(seq)

(******************* heap.rs: the two frame allocators *********************)
\* SimpleHeapFrameAllocator::new(memory_regions, 0), main.rs:67-69
SimpleHeapFrameAllocator_new(next) == [next |-> next]

\* SimpleHeapFrameAllocator::allocate_frame: rescan with skip = next, take the
\* first element, next += 1 (also when the scan is empty)
Simple_allocate_frame_nobump(a, regions) ==
    [frame |-> first_of(get_usable_regions(regions, a.next)), alloc |-> a]

Simple_allocate_frame_rewind(a, regions) ==
    LET frame == first_of(get_usable_regions(regions, a.next))
    IN  [frame |-> frame,
         alloc |-> [a EXCEPT !.next = IF frame = None THEN 0 ELSE a.next + 1]]

Simple_allocate_frame(a, regions) ==
    [frame |-> first_of(get_usable_regions(regions, a.next)),
     alloc |-> [a EXCEPT !.next = a.next + 1]]

\* HeapFrameAllocator::new(memory_regions, next): collect the scan into a VecDeque
HeapFrameAllocator_new_noskip(regions, next) ==
    [made |-> TRUE, usable_frames |-> get_usable_regions(regions, 0), next |-> next]

HeapFrameAllocator_new(regions, next) ==
    [made |-> TRUE, usable_frames |-> get_usable_regions(regions, next), next |-> next]

\* HeapFrameAllocator::allocate_frame: next += 1; pop_front()
Heap_allocate_frame_nopop(a) ==
    [frame |-> first_of(a.usable_frames), alloc |-> [a EXCEPT !.next = @ + 1]]

Heap_allocate_frame(a) ==
    [frame |-> first_of(a.usable_frames),
     alloc |-> [a EXCEPT !.usable_frames = IF @ = <<>> THEN <<>> ELSE Tail(@),
                         !.next = @ + 1]]

(******************** heap.rs: the two heap windows ************************)
\* pages covered by one entry of a level-3, level-2 and level-1 table's parent
TableSpan(level) ==
    IF level = 1 THEN EntriesPerTable
    ELSE IF level = 2 THEN EntriesPerTable * EntriesPerTable
    ELSE EntriesPerTable * EntriesPerTable * EntriesPerTable

\* INITIAL_HEAP_START / INITIAL_HEAP_SIZE (0x1111_1111_0000, 2 MiB), scaled: the
\* window starts one page into a level-1 table of its own level-4 entry
INITIAL_HEAP_START == (TableSpan(3) + 1) * FrameSize
INITIAL_HEAP_SIZE == InitialHeapPages * FrameSize

\* MAIN_HEAP_START / MAIN_HEAP_SIZE (0x4444_4444_0000, 64 MiB), scaled: another
\* level-4 entry
MAIN_HEAP_START_in_bootstrap == INITIAL_HEAP_START + FrameSize

MAIN_HEAP_START == (2 * TableSpan(3) + 1) * FrameSize
MAIN_HEAP_SIZE == MainHeapPages * FrameSize

HeapNames == {"initial_heap", "main_heap"}

\* The kernel's own values of the four constants, in units of 0x1_0000 bytes
\* (each is a multiple of it): heap.rs:10-14, and the older copy memory.rs:77-81
\* whose bootstrap window is 1 MiB.
heap_rs_INITIAL_HEAP_START == 286331153
heap_rs_INITIAL_HEAP_SIZE == (1024 * 1024 * 2) \div 65536
heap_rs_MAIN_HEAP_START == 1145324612
heap_rs_MAIN_HEAP_SIZE == (1024 * 1024 * 64) \div 65536
memory_rs_INITIAL_HEAP_START == 286331153
memory_rs_INITIAL_HEAP_SIZE == (1024 * 1024 * 1) \div 65536
memory_rs_MAIN_HEAP_START == 1145324612
memory_rs_MAIN_HEAP_SIZE == (1024 * 1024 * 64) \div 65536

(********************* heap.rs: init_heap_range ****************************)
\* PageTableFlags::PRESENT | WRITABLE | USER_ACCESSIBLE (heap.rs:138)
heap_page_flags == {"PRESENT", "WRITABLE", "USER_ACCESSIBLE"}

\* FrameAllocator::allocate_frame on the source the caller passed
allocate_frame(which, a) ==
    IF which = "simple" THEN Simple_allocate_frame(a, memory_regions)
    ELSE Heap_allocate_frame(a)

\* the level-`level` table that translates `page`
table_of(level, page) == [level |-> level, index |-> page \div TableSpan(level)]

has_table(pt, level, page) == \E t \in pt.tables : t.id = table_of(level, page)

\* Mapper::map_to creating a missing parent table: one frame from the same
\* allocator (the frame_allocator argument of heap.rs:140)
create_next_table(which, s, level, page) ==
    IF s.result # "Ok" \/ has_table(s.pt, level, page) THEN s
    ELSE LET r == allocate_frame(which, s.alloc)
         IN  IF r.frame = None
               THEN [s EXCEPT !.alloc = r.alloc, !.out = Append(@, r.frame),
                              !.result = "FrameAllocationFailed"]
               ELSE [s EXCEPT !.alloc = r.alloc, !.out = Append(@, r.frame),
                              !.pt.tables = @ \cup {[id |-> table_of(level, page),
                                                      frame |-> r.frame]}]

\* mapper.map_to(page, frame, flags, frame_allocator)?.flush()
map_to_noflush(which, s, page, frame, flags) ==
    LET s3 == create_next_table(which, s, 3, page)
        s2 == create_next_table(which, s3, 2, page)
        s1 == create_next_table(which, s2, 1, page)
    IN  IF s1.result # "Ok" THEN s1
        ELSE IF \E m \in s1.pt.mapped : m.page = page
               THEN [s1 EXCEPT !.result = "PageAlreadyMapped"]
               ELSE [s1 EXCEPT !.pt.mapped = @ \cup {[page |-> page, frame |-> frame,
                                                       flags |-> flags]},
                               !.pt.events = Append(@, [op |-> "map", page |-> page])]

map_to(which, s, page, frame, flags) ==
    LET s3 == create_next_table(which, s, 3, page)
        s2 == create_next_table(which, s3, 2, page)
        s1 == create_next_table(which, s2, 1, page)
    IN  IF s1.result # "Ok" THEN s1
        ELSE IF \E m \in s1.pt.mapped : m.page = page
               THEN [s1 EXCEPT !.result = "PageAlreadyMapped"]
               ELSE [s1 EXCEPT !.pt.mapped = @ \cup {[page |-> page, frame |-> frame,
                                                       flags |-> flags]},
                               !.pt.flushed = @ \cup {page},
                               !.pt.events = @ \o <<[op |-> "map", page |-> page],
                                                     [op |-> "flush", page |-> page]>>]

\* Page::range_inclusive(containing(start), containing(start + size - 1))
page_range_exclusive(start, size) ==
    LET first == start \div FrameSize
        last == (start + size - 1) \div FrameSize
    IN  [i \in 1..(last - first) |-> first + i - 1]

page_range(start, size) ==
    LET first == start \div FrameSize
        last == (start + size - 1) \div FrameSize
    IN  [i \in 1..(last - first + 1) |-> first + i - 1]

\* the for loop of init_heap_range: one frame per page, `?` on either failure
RECURSIVE map_pages_skip_failed(_, _, _)
map_pages_skip_failed(which, s, pages) ==
    IF pages = <<>> THEN s
    ELSE LET r == allocate_frame(which, s.alloc)
             t == [s EXCEPT !.alloc = r.alloc, !.out = Append(@, r.frame)]
         IN  IF r.frame = None
               THEN map_pages_skip_failed(which, t, Tail(pages))
               ELSE LET m == map_to(which, t, Head(pages), r.frame, heap_page_flags)
                    IN  IF m.result # "Ok" THEN m
                        ELSE map_pages_skip_failed(which, m, Tail(pages))

RECURSIVE map_pages_keep_going(_, _, _)
map_pages_keep_going(which, s, pages) ==
    IF pages = <<>> THEN s
    ELSE LET r == allocate_frame(which, s.alloc)
             t == [s EXCEPT !.alloc = r.alloc, !.out = Append(@, r.frame)]
         IN  IF r.frame = None
               THEN map_pages_keep_going(which,
                        [t EXCEPT !.result = "FrameAllocationFailed"], Tail(pages))
               ELSE LET m == map_to(which, [t EXCEPT !.result = "Ok"], Head(pages),
                                    r.frame, heap_page_flags)
                    IN  IF m.result # "Ok" THEN m
                        ELSE map_pages_keep_going(which, [m EXCEPT !.result = s.result],
                                                  Tail(pages))

RECURSIVE map_pages(_, _, _)
map_pages(which, s, pages) ==
    IF pages = <<>> THEN s
    ELSE LET r == allocate_frame(which, s.alloc)
             t == [s EXCEPT !.alloc = r.alloc, !.out = Append(@, r.frame)]
         IN  IF r.frame = None
               THEN [t EXCEPT !.result = "FrameAllocationFailed"]
               ELSE LET m == map_to(which, t, Head(pages), r.frame, heap_page_flags)
                    IN  IF m.result # "Ok" THEN m
                        ELSE map_pages(which, m, Tail(pages))

\* init_heap_range(mapper, frame_allocator, start, size)
init_heap_range(which, a, start, size) ==
    map_pages(which,
              [alloc |-> a, pt |-> page_table, result |-> "Ok",
               out |-> IF which = "simple" THEN issued.simple ELSE issued.queued],
              page_range(start, size))

(**************** linked_list_allocator behind LockedHeap ******************)
\* the null pointer
NULL == 0

\* LockedHeap::empty()
empty_heap == [init |-> FALSE, bottom |-> 0, size |-> 0, holes |-> {}]

\* Heap::init(start, size): one hole over the whole window
heap_init(start, size) ==
    [init |-> TRUE, bottom |-> start, size |-> size,
     holes |-> {[addr |-> start, size |-> size]}]

\* allocate_first_fit: the lowest hole that is large enough, split at its front
heap_allocate_grow(h, size) ==
    LET fits == {x \in h.holes : x.size >= size}
    IN  IF fits = {} THEN [ptr |-> h.bottom + h.size, heap |-> [h EXCEPT !.size = @ + size]]
        ELSE LET x == CHOOSE y \in fits : \A z \in fits : y.addr <= z.addr
                 rest == IF x.size > size
                           THEN {[addr |-> x.addr + size, size |-> x.size - size]}
                           ELSE {}
             IN  [ptr |-> x.addr, heap |-> [h EXCEPT !.holes = (@ \ {x}) \cup rest]]

heap_allocate(h, size) ==
    LET fits == {x \in h.holes : x.size >= size}
    IN  IF fits = {} THEN [ptr |-> NULL, heap |-> h]
        ELSE LET x == CHOOSE y \in fits : \A z \in fits : y.addr <= z.addr
                 rest == IF x.size > size
                           THEN {[addr |-> x.addr + size, size |-> x.size - size]}
                           ELSE {}
             IN  [ptr |-> x.addr, heap |-> [h EXCEPT !.holes = (@ \ {x}) \cup rest]]

\* holes that touch are merged
RECURSIVE coalesce(_)
coalesce(holes) ==
    IF \E a, b \in holes : a.addr + a.size = b.addr
      THEN LET a == CHOOSE a \in holes : \E b \in holes : a.addr + a.size = b.addr
               b == CHOOSE b \in holes : a.addr + a.size = b.addr
           IN  coalesce((holes \ {a, b}) \cup {[addr |-> a.addr, size |-> a.size + b.size]})
      ELSE holes

\* deallocate: the block becomes a hole of this heap's list, whatever heap it
\* came from (the list does not check the address against the heap's window)
heap_deallocate(h, ptr, size) ==
    [h EXCEPT !.holes = coalesce(@ \cup {[addr |-> ptr, size |-> size]})]

(*********************** heap.rs: HeapManager *******************************)
\* HeapManager::new()
HeapManager_new ==
    [initial_heap |-> empty_heap, main_heap |-> empty_heap, initialized |-> FALSE]

\* HeapManager::init: initialized.store(true)
HeapManager_init_toggle(m) == [m EXCEPT !.initialized = ~@]

HeapManager_init(m) == [m EXCEPT !.initialized = TRUE]

\* the branch of alloc / dealloc on initialized.load()
select_heap_noswitch(m) == IF m.initialized THEN "initial_heap" ELSE "initial_heap"

select_heap(m) == IF m.initialized THEN "main_heap" ELSE "initial_heap"

\* layouts the callers ask for: half a page, and a block as large as the whole
\* main window (larger than the bootstrap window)
LayoutSizes == {FrameSize \div 2, MAIN_HEAP_SIZE}

\* the buffer of the String the handler formats
string_bytes == FrameSize \div 2

\* size of the VecDeque buffer HeapFrameAllocator::new collects n frames into
\* (8 bytes per PhysFrame), as the heap rounds it
vecdeque_bytes(n) == 16 * ((8 * n + 15) \div 16)

(********************** main.rs: panic and abort ***************************)
\* the messages of the two .expect() calls of kernel_main (main.rs:71, 82)
InitialHeapExpect == "Failed to initialize initial heap!"
MainHeapExpect == "Failed to initialize main heap!"

\* core::fmt::Arguments: literal pieces with the runtime arguments in between
Arguments(pieces, args) == [pieces |-> pieces, args |-> args]

\* Result::expect(msg) on Err(error): panic!("{msg}: {error:?}")
expect_failed(msg, error) == Arguments(<<"", ": ">>, <<msg, error>>)

\* a failed allocation of an alloc collection: the allocation error handler
\* panics with "memory allocation of {size} bytes failed"
alloc_error(size) ==
    Arguments(<<"memory allocation of ", " bytes failed">>, <<ToString(size)>>)

\* Arguments::as_str(): the text when nothing is left to format at run time
Arguments_as_str(a) ==
    IF a.args = <<>>
      THEN [some |-> TRUE, str |-> IF a.pieces = <<>> THEN "" ELSE a.pieces[1]]
      ELSE [some |-> FALSE, str |-> ""]

\* the panic handler: payload_message = message.as_str().unwrap_or("Unknown
\* panic message."); abort() logs it on the serial port and halts
\* (main.rs:181-223); the parts of the logged text
panic(message) ==
    LET text == Arguments_as_str(message)
    IN  IF text.some THEN <<text.str>> ELSE <<"Unknown panic message.">>

idle_ctx == [pc |-> "idle", op |-> "none", heap |-> "none", size |-> 0, ptr |-> NULL,
             before |-> FALSE]

(********************** api/event.rs: EventDispatcher **********************)
\* the handlers that exist (each an Arc<Mutex<dyn EventHandler + Send>>)
Handlers == 1..MaxHandlers

\* EventDispatcher::new(): no handler, empty queue, new_event false; every
\* spin lock free (handlers_lock: 0 or the depth of the dispatch() holding it)
EventDispatcher_new ==
    [handlers |-> <<>>, queue |-> <<>>, new_event |-> FALSE,
     handlers_lock |-> 0, handler_lock |-> [h \in Handlers |-> "free"]]

\* nothing pushed, registered or delivered yet
InitEventVars ==
    /\ EVENT_DISPATCHER = EventDispatcher_new
    /\ call_stack = <<>>
    /\ event_log = [pushed |-> 0,
                    registered_at |-> [h \in Handlers |-> 0],
                    delivered |-> [h \in Handlers |-> <<>>]]

\* no translation has been made, and the dispatcher is new
InitServiceVars ==
    /\ translation = [offset |-> 0, physical_address |-> 0, site |-> "none",
                      done |-> FALSE, panicked |-> FALSE, virt |-> 0]
    /\ InitEventVars

InitKernelVars ==
    /\ page_table = [tables |-> {}, mapped |-> {}, flushed |-> {}, events |-> <<>>]
    /\ map_log = [h \in HeapNames |-> [result |-> "NotCalled", requests |-> 0, pages |-> 0,
                                        new_tables |-> 0, avail |-> 0, needed |-> 0]]
    /\ ALLOCATOR = HeapManager_new
    /\ lock = [h \in HeapNames |-> "free"]
    /\ ctx = [main |-> idle_ctx, irq |-> [idle_ctx EXCEPT !.pc = "inactive"]]
    /\ live = {}
    /\ alloc_log = {}
    /\ cpu = [interrupts |-> FALSE, halted |-> FALSE, allocs |-> 0, activations |-> 0,
              fired |-> 0, diagnostic |-> <<>>]

(****************************** history ************************************)
NoneCount(seq) == Cardinality({i \in 1..Len(seq) : seq[i] = None})

(***************************** frame harness *******************************)
\* The two frame sources driven on their own, call by call, over every map.
InitFrames ==
    /\ memory_regions \in MemoryMaps
    /\ simple_heap_allocator = SimpleHeapFrameAllocator_new(0)
    /\ frame_allocator = [made |-> FALSE, usable_frames |-> <<>>, next |-> 0]
    /\ issued = [simple |-> <<>>, queued |-> <<>>, skip |-> 0]
    /\ InitKernelVars
    /\ InitServiceVars

\* one allocate_frame() call on the bootstrap source
SimpleAllocate ==
    /\ ~frame_allocator.made
    /\ NoneCount(issued.simple) < MaxExhaustedCalls
    /\ LET r == Simple_allocate_frame(simple_heap_allocator, memory_regions)
       IN  /\ simple_heap_allocator' = r.alloc
           /\ issued' = [issued EXCEPT !.simple = Append(@, r.frame)]
    /\ UNCHANGED <<memory_regions, frame_allocator>>
    /\ UNCHANGED kernel_vars
    /\ UNCHANGED service_vars

\* HeapFrameAllocator::new(&boot_info.memory_regions, next) with the bootstrap
\* source's cursor (main.rs:78-80)
QueuedNew ==
    /\ ~frame_allocator.made
    /\ frame_allocator' = HeapFrameAllocator_new(memory_regions, simple_heap_allocator.next)
    /\ issued' = [issued EXCEPT !.skip = simple_heap_allocator.next]
    /\ UNCHANGED <<memory_regions, simple_heap_allocator>>
    /\ UNCHANGED kernel_vars
    /\ UNCHANGED service_vars

\* one allocate_frame() call on the queued source
QueuedAllocate ==
    /\ frame_allocator.made
    /\ NoneCount(issued.queued) < MaxExhaustedCalls
    /\ LET r == Heap_allocate_frame(frame_allocator)
       IN  /\ frame_allocator' = r.alloc
           /\ issued' = [issued EXCEPT !.queued = Append(@, r.frame)]
    /\ UNCHANGED <<memory_regions, simple_heap_allocator>>
    /\ UNCHANGED kernel_vars
    /\ UNCHANGED service_vars

NextFrames == SimpleAllocate \/ QueuedNew \/ QueuedAllocate

SpecFrames == InitFrames /\ [][NextFrames]_vars

(************************ the two sources side by side *********************)
\* Both sources built over the same map with the same starting cursor
\* (SimpleHeapFrameAllocator::new(regions, next), HeapFrameAllocator::new(regions,
\* next)) and stepped together, one allocate_frame() call on each per step.
InitPair ==
    /\ memory_regions \in MemoryMaps
    /\ \E next \in 0..MaxStartCursor :
           /\ simple_heap_allocator = SimpleHeapFrameAllocator_new(next)
           /\ frame_allocator = HeapFrameAllocator_new(memory_regions, next)
           /\ issued = [simple |-> <<>>, queued |-> <<>>, skip |-> next]
    /\ InitKernelVars
    /\ InitServiceVars

PairAllocate ==
    /\ NoneCount(issued.simple) < MaxExhaustedCalls
    /\ NoneCount(issued.queued) < MaxExhaustedCalls
    /\ LET r == Simple_allocate_frame(simple_heap_allocator, memory_regions)
           q == Heap_allocate_frame(frame_allocator)
       IN  /\ simple_heap_allocator' = r.alloc
           /\ frame_allocator' = q.alloc
           /\ issued' = [issued EXCEPT !.simple = Append(@, r.frame),
                                       !.queued = Append(@, q.frame)]
    /\ UNCHANGED memory_regions
    /\ UNCHANGED kernel_vars
    /\ UNCHANGED service_vars

NextPair == PairAllocate

SpecPair == InitPair /\ [][NextPair]_vars

(******************************* the kernel ********************************)
\* kernel_main's memory steps in its order: init_initial_heap, then
\* HeapFrameAllocator::new with the cursor it returned, then init_main_heap,
\* then init_allocator() (here possibly repeated), then the IDT.  The main line
\* allocates and frees through ALLOCATOR between any two of these steps and
\* afterwards; once interrupts are enabled, so does the timer handler.
Init ==
    /\ memory_regions \in KernelMaps
    /\ simple_heap_allocator = SimpleHeapFrameAllocator_new(0)
    /\ frame_allocator = [made |-> FALSE, usable_frames |-> <<>>, next |-> 0]
    /\ issued = [simple |-> <<>>, queued |-> <<>>, skip |-> 0]
    /\ InitKernelVars
    /\ InitServiceVars

\* the main line is between two calls and no handler is running
MainIdle == ~cpu.halted /\ ctx.irq.pc = "inactive" /\ ctx.main.pc = "idle"

\* a handler runs to its iret before the interrupted main line continues
Runnable(c) ==
    /\ ~cpu.halted
    /\ IF c = "main" THEN ctx.irq.pc = "inactive" ELSE ctx.irq.pc # "inactive"

\* page tables the window's pages need and the mapper does not have yet
missing_tables(pt, pages) ==
    {table_of(l, pages[i]) : l \in 1..3, i \in DOMAIN pages} \ {t.id : t \in pt.tables}

\* what one init_*_heap call did, for the record
map_record(s, which, a, out, pages) ==
    [result |-> s.result,
     requests |-> Len(s.out) - Len(out),
     pages |-> Len(pages),
     new_tables |-> Cardinality(s.pt.tables) - Cardinality(page_table.tables),
     avail |-> IF which = "simple" THEN Len(get_usable_regions(memory_regions, a.next))
               ELSE Len(a.usable_frames),
     needed |-> Len(pages) + Cardinality(missing_tables(page_table, pages))]

\* init_initial_heap(&mut mapper, &mut simple_heap_allocator).expect(..), main.rs:70-71
InitInitialHeap ==
    /\ MainIdle
    /\ map_log["initial_heap"].result = "NotCalled"
    /\ LET s == init_heap_range("simple", simple_heap_allocator,
                                INITIAL_HEAP_START, INITIAL_HEAP_SIZE)
       IN  /\ simple_heap_allocator' = s.alloc
           /\ issued' = [issued EXCEPT !.simple = s.out]
           /\ page_table' = s.pt
           /\ map_log' = [map_log EXCEPT !["initial_heap"] =
                  map_record(s, "simple", simple_heap_allocator, issued.simple,
                             page_range(INITIAL_HEAP_START, INITIAL_HEAP_SIZE))]
           /\ IF s.result = "Ok"
                THEN /\ ALLOCATOR' = [ALLOCATOR EXCEPT !.initial_heap =
                                          heap_init(INITIAL_HEAP_START, INITIAL_HEAP_SIZE)]
                     /\ cpu' = cpu
                ELSE /\ ALLOCATOR' = ALLOCATOR
                     /\ cpu' = [cpu EXCEPT !.halted = TRUE,
                                          !.diagnostic = panic(expect_failed(
                                              InitialHeapExpect, s.result))]
    /\ UNCHANGED <<memory_regions, frame_allocator, lock, ctx, live, alloc_log>>
    /\ UNCHANGED service_vars

\* HeapFrameAllocator::new(&boot_info.memory_regions, next), main.rs:78-80; the
\* VecDeque it collects into is allocated through ALLOCATOR
KernelQueuedNew ==
    /\ MainIdle
    /\ map_log["initial_heap"].result = "Ok"
    /\ ~frame_allocator.made
    /\ LET fa == HeapFrameAllocator_new(memory_regions, simple_heap_allocator.next)
           n == Len(fa.usable_frames)
           h == select_heap(ALLOCATOR)
           r == heap_allocate(ALLOCATOR[h], vecdeque_bytes(n))
       IN  IF n = 0
             THEN /\ frame_allocator' = fa
                  /\ UNCHANGED <<ALLOCATOR, live, alloc_log, cpu>>
             ELSE /\ ALLOCATOR' = [ALLOCATOR EXCEPT ![h] = r.heap]
                  /\ alloc_log' = alloc_log \cup
                         {[before |-> ~ALLOCATOR.initialized, heap |-> h, ptr |-> r.ptr,
                           by |-> "main"]}
                  /\ IF r.ptr = NULL
                       THEN /\ cpu' = [cpu EXCEPT !.halted = TRUE,
                                                 !.diagnostic = panic(alloc_error(
                                                     vecdeque_bytes(n)))]
                            /\ UNCHANGED <<frame_allocator, live>>
                       ELSE /\ frame_allocator' = fa
                            /\ live' = live \cup
                                   {[ptr |-> r.ptr, size |-> vecdeque_bytes(n),
                                     owner |-> "frame_allocator",
                                     before |-> ~ALLOCATOR.initialized]}
                            /\ cpu' = cpu
    /\ issued' = [issued EXCEPT !.skip = simple_heap_allocator.next]
    /\ UNCHANGED <<memory_regions, simple_heap_allocator, page_table, map_log, lock, ctx>>
    /\ UNCHANGED service_vars

\* init_main_heap(&mut mapper, &mut frame_allocator).expect(..), main.rs:81-82
InitMainHeap ==
    /\ MainIdle
    /\ frame_allocator.made
    /\ map_log["main_heap"].result = "NotCalled"
    /\ LET s == init_heap_range("queued", frame_allocator, MAIN_HEAP_START, MAIN_HEAP_SIZE)
       IN  /\ frame_allocator' = s.alloc
           /\ issued' = [issued EXCEPT !.queued = s.out]
           /\ page_table' = s.pt
           /\ map_log' = [map_log EXCEPT !["main_heap"] =
                  map_record(s, "queued", frame_allocator, issued.queued,
                             page_range(MAIN_HEAP_START, MAIN_HEAP_SIZE))]
           /\ IF s.result = "Ok"
                THEN /\ ALLOCATOR' = [ALLOCATOR EXCEPT !.main_heap =
                                          heap_init(MAIN_HEAP_START, MAIN_HEAP_SIZE)]
                     /\ cpu' = cpu
                ELSE /\ ALLOCATOR' = ALLOCATOR
                     /\ cpu' = [cpu EXCEPT !.halted = TRUE,
                                          !.diagnostic = panic(expect_failed(
                                              MainHeapExpect, s.result))]
    /\ UNCHANGED <<memory_regions, simple_heap_allocator, lock, ctx, live, alloc_log>>
    /\ UNCHANGED service_vars

\* init_allocator(): ALLOCATOR.init(); first called once init_main_heap has
\* returned Ok (main.rs:81-83), and then again at any time
InitAllocator ==
    /\ MainIdle
    /\ map_log["main_heap"].result = "Ok"
    /\ cpu.activations < MaxActivations
    /\ ALLOCATOR' = HeapManager_init(ALLOCATOR)
    /\ cpu' = [cpu EXCEPT !.activations = @ + 1]
    /\ UNCHANGED <<frame_vars, page_table, map_log, lock, ctx, live, alloc_log>>
    /\ UNCHANGED service_vars

\* idt::init(): interrupts::enable(); kernel_main loads the IDT after the main
\* heap is active (main.rs:107-108)
IdtInit ==
    /\ MainIdle
    /\ ~cpu.interrupts
    /\ ALLOCATOR.initialized
    /\ cpu' = [cpu EXCEPT !.interrupts = TRUE]
    /\ UNCHANGED <<frame_vars, page_table, map_log, ALLOCATOR, lock, ctx, live, alloc_log>>
    /\ UNCHANGED service_vars

\* GlobalAlloc::alloc, up to the heap's lock(): the flag is read and picks the heap
CallAlloc(size) ==
    /\ MainIdle
    /\ cpu.allocs < MaxAllocs
    /\ ctx' = [ctx EXCEPT !.main = [pc |-> "lock", op |-> "alloc",
                                    heap |-> select_heap(ALLOCATOR), size |-> size,
                                    ptr |-> NULL, before |-> ~ALLOCATOR.initialized]]
    /\ cpu' = [cpu EXCEPT !.allocs = @ + 1]
    /\ UNCHANGED <<frame_vars, page_table, map_log, ALLOCATOR, lock, live, alloc_log>>
    /\ UNCHANGED service_vars

\* GlobalAlloc::dealloc of a block the main line owns, up to the heap's lock()
CallDealloc(b) ==
    /\ MainIdle
    /\ b \in live /\ b.owner = "main"
    /\ ctx' = [ctx EXCEPT !.main = [pc |-> "lock", op |-> "dealloc",
                                    heap |-> select_heap(ALLOCATOR), size |-> b.size,
                                    ptr |-> b.ptr, before |-> ~ALLOCATOR.initialized]]
    /\ live' = live \ {b}
    /\ UNCHANGED <<frame_vars, page_table, map_log, ALLOCATOR, lock, alloc_log, cpu>>
    /\ UNCHANGED service_vars

\* LockedHeap: spin::Mutex::lock() succeeds only while the lock is free
Acquire(c) ==
    /\ Runnable(c)
    /\ ctx[c].pc = "lock"
    /\ lock[ctx[c].heap] = "free"
    /\ lock' = [lock EXCEPT ![ctx[c].heap] = c]
    /\ ctx' = [ctx EXCEPT ![c].pc = "crit"]
    /\ UNCHANGED <<frame_vars, page_table, map_log, ALLOCATOR, live, alloc_log, cpu>>
    /\ UNCHANGED service_vars

\* the heap operation under the lock, the unlock and the return
Finish(c) ==
    /\ Runnable(c)
    /\ ctx[c].pc = "crit"
    /\ lock' = [lock EXCEPT ![ctx[c].heap] = "free"]
    /\ LET h == ctx[c].heap
           r == heap_allocate(ALLOCATOR[h], ctx[c].size)
       IN  IF ctx[c].op = "alloc"
             THEN /\ ALLOCATOR' = [ALLOCATOR EXCEPT ![h] = r.heap]
                  /\ alloc_log' = alloc_log \cup
                         {[before |-> ctx[c].before, heap |-> h, ptr |-> r.ptr, by |-> c]}
                  /\ live' = IF r.ptr = NULL THEN live
                             ELSE live \cup {[ptr |-> r.ptr, size |-> ctx[c].size,
                                              owner |-> c, before |-> ctx[c].before]}
                  /\ IF c = "main"
                       THEN ctx' = [ctx EXCEPT !.main = idle_ctx] /\ cpu' = cpu
                       ELSE /\ ctx' = [ctx EXCEPT !.irq.pc = "drop", !.irq.ptr = r.ptr]
                            /\ cpu' = IF r.ptr = NULL
                                         THEN [cpu EXCEPT !.halted = TRUE,
                                                          !.diagnostic = panic(alloc_error(
                                                              ctx[c].size))]
                                         ELSE cpu
             ELSE /\ ALLOCATOR' = [ALLOCATOR EXCEPT ![h] =
                                       heap_deallocate(@, ctx[c].ptr, ctx[c].size)]
                  /\ ctx' = IF c = "main" THEN [ctx EXCEPT !.main = idle_ctx]
                            ELSE [ctx EXCEPT !.irq = [idle_ctx EXCEPT !.pc = "inactive"]]
                  /\ UNCHANGED <<live, alloc_log, cpu>>
    /\ UNCHANGED <<frame_vars, page_table, map_log>>
    /\ UNCHANGED service_vars

\* timer_interrupt_handler -> dispatch -> Kernel::handle -> tick(): format!
\* allocates a String through ALLOCATOR (idt.rs:67-77, kernel.rs:34-41)
Interrupt ==
    /\ cpu.interrupts /\ ~cpu.halted
    /\ ctx.irq.pc = "inactive"
    /\ cpu.fired < MaxInterrupts
    /\ ctx' = [ctx EXCEPT !.irq = [pc |-> "lock", op |-> "alloc",
                                   heap |-> select_heap(ALLOCATOR),
                                   size |-> string_bytes,
                                   ptr |-> NULL, before |-> ~ALLOCATOR.initialized]]
    /\ cpu' = [cpu EXCEPT !.fired = @ + 1]
    /\ UNCHANGED <<frame_vars, page_table, map_log, ALLOCATOR, lock, live, alloc_log>>
    /\ UNCHANGED service_vars

\* the handler drops its String: dealloc, up to the heap's lock()
IrqDrop ==
    /\ Runnable("irq")
    /\ ctx.irq.pc = "drop"
    /\ ctx' = [ctx EXCEPT !.irq.pc = "lock", !.irq.op = "dealloc",
                          !.irq.heap = select_heap(ALLOCATOR),
                          !.irq.before = ~ALLOCATOR.initialized]
    /\ live' = {b \in live : ~(b.owner = "irq" /\ b.ptr = ctx.irq.ptr)}
    /\ UNCHANGED <<frame_vars, page_table, map_log, ALLOCATOR, lock, alloc_log, cpu>>
    /\ UNCHANGED service_vars

Next ==
    \/ InitInitialHeap
    \/ KernelQueuedNew
    \/ InitMainHeap
    \/ InitAllocator
    \/ IdtInit
    \/ \E size \in LayoutSizes : CallAlloc(size)
    \/ \E b \in live : CallDealloc(b)
    \/ \E c \in {"main", "irq"} : Acquire(c)
    \/ \E c \in {"main", "irq"} : Finish(c)
    \/ Interrupt
    \/ IrqDrop

Spec == Init /\ [][Next]_vars

(**************************** kernel_main as written ***********************)
\* kernel_main calls init_allocator() once (main.rs:83)
BootInitAllocator_anytime ==
    /\ MainIdle
    /\ cpu.activations = 0
    /\ ALLOCATOR' = HeapManager_init(ALLOCATOR)
    /\ cpu' = [cpu EXCEPT !.activations = @ + 1]
    /\ UNCHANGED <<frame_vars, page_table, map_log, lock, ctx, live, alloc_log>>
    /\ UNCHANGED service_vars

BootInitAllocator ==
    /\ cpu.activations = 0
    /\ InitAllocator

NextBoot ==
    \/ InitInitialHeap
    \/ KernelQueuedNew
    \/ InitMainHeap
    \/ BootInitAllocator
    \/ IdtInit
    \/ \E size \in LayoutSizes : CallAlloc(size)
    \/ \E b \in live : CallDealloc(b)
    \/ \E c \in {"main", "irq"} : Acquire(c)
    \/ \E c \in {"main", "irq"} : Finish(c)
    \/ Interrupt
    \/ IrqDrop

SpecBoot == Init /\ [][NextBoot]_vars

(***************** memory.rs, acpi.rs: physical to virtual ******************)
RECURSIVE Pow2(_)
Pow2(n) == IF n = 0 THEN 1 ELSE 2 * Pow2(n - 1)

\* the outcome of a translation: a panic, or the address of the VirtAddr
Panicked == [panicked |-> TRUE, virt |-> 0]
Returned(addr) == [panicked |-> FALSE, virt |-> addr]

\* u64 + u64: the sum; past the width a panic (overflow checks on) or the
\* wrapped sum (overflow checks off), as the build was configured
u64_add(a, b) ==
    IF a + b < Pow2(AddressBits) THEN {Returned(a + b)}
    ELSE {Panicked, Returned((a + b) % Pow2(AddressBits))}

\* VirtAddr::new_truncate: the implemented bits, sign-extended
new_truncate_zero_extend(addr) == addr % Pow2(VirtualBits)

new_truncate(addr) ==
    LET low == addr % Pow2(VirtualBits)
    IN  IF low >= Pow2(VirtualBits - 1)
          THEN low + (Pow2(AddressBits) - Pow2(VirtualBits))
          ELSE low

\* VirtAddr::new (x86_64 0.14): the sign bit and the bits above it are all 0 or
\* all 1: the address as given; only the sign bit is set: the address
\* sign-extended; anything else: panic
VirtAddr_new(addr) ==
    LET high == addr \div Pow2(VirtualBits - 1)
    IN  IF high = 0 \/ high = Pow2(AddressBits - VirtualBits + 1) - 1 THEN Returned(addr)
        ELSE IF high = 1 THEN Returned(new_truncate(addr))
        ELSE Panicked

\* the outcomes of VirtAddr::new on the outcomes of the addition
new_of_sum(offset, physical_address) ==
    {IF r.panicked THEN r ELSE VirtAddr_new(r.virt) : r \in u64_add(offset, physical_address)}

\* active_level_4_table: physical_memory_offset + phys.as_u64()  (memory.rs:70-71)
active_level_4_table(physical_memory_offset, phys) ==
    new_of_sum(physical_memory_offset, phys)

\* MainAcpiHandler::map_physical_region: VirtAddr::new(offset.as_u64() +
\* physical_address as u64)  (acpi.rs:166-170)
map_physical_region(physical_memory_offset, physical_address) ==
    new_of_sum(physical_memory_offset, physical_address)

\* the two call sites
TranslationSites == {"active_level_4_table", "map_physical_region"}

\* a VirtAddr holds a canonical address
CanonicalAddresses ==
    {a \in 0..(Pow2(AddressBits) - 1) :
        a < Pow2(VirtualBits - 1) \/ a >= Pow2(AddressBits) - Pow2(VirtualBits - 1)}

(************************** translation harness ****************************)
\* One translation with any canonical offset and any physical address.
InitTranslate ==
    /\ memory_regions = <<>>
    /\ simple_heap_allocator = SimpleHeapFrameAllocator_new(0)
    /\ frame_allocator = [made |-> FALSE, usable_frames |-> <<>>, next |-> 0]
    /\ issued = [simple |-> <<>>, queued |-> <<>>, skip |-> 0]
    /\ InitKernelVars
    /\ InitEventVars
    /\ \E offset \in CanonicalAddresses, pa \in 0..(Pow2(AddressBits) - 1),
          site \in TranslationSites :
           translation = [offset |-> offset, physical_address |-> pa, site |-> site,
                          done |-> FALSE, panicked |-> FALSE, virt |-> 0]

\* the call
Translate ==
    /\ ~translation.done
    /\ \E r \in IF translation.site = "active_level_4_table"
                  THEN active_level_4_table(translation.offset,
                                            translation.physical_address)
                  ELSE map_physical_region(translation.offset,
                                           translation.physical_address) :
           translation' = [translation EXCEPT !.done = TRUE, !.panicked = r.panicked,
                                              !.virt = r.virt]
    /\ UNCHANGED <<frame_vars, kernel_vars, event_vars>>

NextTranslate == Translate

SpecTranslate == InitTranslate /\ [][NextTranslate]_vars

(***************************** event harness *******************************)
\* The dispatcher driven by the main line: handlers are registered, locked by
\* their owner (TimeManager::with_clock) and released, events are pushed and
\* dispatched; a handler that is handling an event may push and dispatch too.
InitEvents ==
    /\ memory_regions = <<>>
    /\ simple_heap_allocator = SimpleHeapFrameAllocator_new(0)
    /\ frame_allocator = [made |-> FALSE, usable_frames |-> <<>>, next |-> 0]
    /\ issued = [simple |-> <<>>, queued |-> <<>>, skip |-> 0]
    /\ InitKernelVars
    /\ InitServiceVars

\* the main line is outside dispatch()
Outside == call_stack = <<>>

\* the innermost dispatch() is inside handler.handle(event)
Handling == call_stack # <<>> /\ call_stack[Len(call_stack)].pc = "handling"

\* the innermost dispatch() call with its fields replaced
set_top(frame) == [call_stack EXCEPT ![Len(call_stack)] = frame]

\* register(handler): self.handlers.lock().push(handler)
register(h) ==
    /\ Outside
    /\ \A i \in DOMAIN EVENT_DISPATCHER.handlers : EVENT_DISPATCHER.handlers[i] # h
    /\ EVENT_DISPATCHER.handlers_lock = 0
    /\ EVENT_DISPATCHER' = [EVENT_DISPATCHER EXCEPT !.handlers = Append(@, h)]
    /\ event_log' = [event_log EXCEPT !.registered_at[h] = event_log.pushed]
    /\ UNCHANGED <<frame_vars, kernel_vars, translation, call_stack>>

\* TimeManager::with_clock: the owner takes its handler's lock with try_lock()
with_clock_enter(h) ==
    /\ Outside
    /\ EVENT_DISPATCHER.handler_lock[h] = "free"
    /\ EVENT_DISPATCHER' = [EVENT_DISPATCHER EXCEPT !.handler_lock[h] = "owner"]
    /\ UNCHANGED <<frame_vars, kernel_vars, translation, call_stack, event_log>>

\* with_clock returns: the guard is dropped
with_clock_leave(h) ==
    /\ Outside
    /\ EVENT_DISPATCHER.handler_lock[h] = "owner"
    /\ EVENT_DISPATCHER' = [EVENT_DISPATCHER EXCEPT !.handler_lock[h] = "free"]
    /\ UNCHANGED <<frame_vars, kernel_vars, translation, call_stack, event_log>>

\* push(event): queue.lock().push_back(event); new_event.store(true); events
\* are numbered in push order
push ==
    /\ Outside \/ Handling
    /\ event_log.pushed < MaxEvents
    /\ EVENT_DISPATCHER' = [EVENT_DISPATCHER EXCEPT
                               !.queue = Append(@, event_log.pushed + 1),
                               !.new_event = TRUE]
    /\ event_log' = [event_log EXCEPT !.pushed = @ + 1]
    /\ UNCHANGED <<frame_vars, kernel_vars, translation, call_stack>>

\* dispatch(), its first statements: the queue is swapped with an empty
\* local_queue
dispatch_swap ==
    /\ Outside \/ (Handling /\ Len(call_stack) < MaxDispatchDepth)
    /\ call_stack' = Append(call_stack,
                            [local_queue |-> EVENT_DISPATCHER.queue, event |-> 0,
                             index |-> 0, pc |-> "pop"])
    /\ EVENT_DISPATCHER' = [EVENT_DISPATCHER EXCEPT !.queue = <<>>]
    /\ UNCHANGED <<frame_vars, kernel_vars, translation, event_log>>

\* dispatch(), the head of the while loop: local_queue.pop_front(); None:
\* new_event.store(false) and return; Some: handlers.try_lock(), and return at
\* once when the list is locked
dispatch_pop ==
    /\ call_stack # <<>>
    /\ LET top == call_stack[Len(call_stack)]
           rest == SubSeq(call_stack, 1, Len(call_stack) - 1)
       IN  /\ top.pc = "pop"
           /\ IF top.local_queue = <<>>
                THEN /\ EVENT_DISPATCHER' = [EVENT_DISPATCHER EXCEPT !.new_event = FALSE]
                     /\ call_stack' = rest
                ELSE IF EVENT_DISPATCHER.handlers_lock # 0
                       THEN /\ call_stack' = rest
                            /\ UNCHANGED EVENT_DISPATCHER
                       ELSE /\ EVENT_DISPATCHER' = [EVENT_DISPATCHER EXCEPT
                                                       !.handlers_lock = Len(call_stack)]
                            /\ call_stack' = set_top([top EXCEPT
                                                 !.local_queue = Tail(@),
                                                 !.event = Head(top.local_queue),
                                                 !.index = 1, !.pc = "iter"])
    /\ UNCHANGED <<frame_vars, kernel_vars, translation, event_log>>

\* dispatch(), the for loop over the handlers: handler.try_lock(); Some:
\* handler.handle(event.clone()) is entered; None: the handler is skipped;
\* past the last handler the guard of the list is dropped
dispatch_handler ==
    /\ call_stack # <<>>
    /\ LET top == call_stack[Len(call_stack)]
           handlers == EVENT_DISPATCHER.handlers
       IN  /\ top.pc = "iter"
           /\ IF top.index > Len(handlers)
                THEN /\ EVENT_DISPATCHER' = [EVENT_DISPATCHER EXCEPT !.handlers_lock = 0]
                     /\ call_stack' = set_top([top EXCEPT !.pc = "pop"])
                     /\ UNCHANGED event_log
                ELSE LET h == handlers[top.index]
                     IN  IF EVENT_DISPATCHER.handler_lock[h] = "free"
                           THEN /\ EVENT_DISPATCHER' = [EVENT_DISPATCHER EXCEPT
                                                           !.handler_lock[h] = "dispatch"]
                                /\ call_stack' = set_top([top EXCEPT !.pc = "handling"])
                                /\ event_log' = [event_log EXCEPT
                                                    !.delivered[h] = Append(@, top.event)]
                           ELSE /\ call_stack' = set_top([top EXCEPT !.index = @ + 1])
                                /\ UNCHANGED <<EVENT_DISPATCHER, event_log>>
    /\ UNCHANGED <<frame_vars, kernel_vars, translation>>

\* handler.handle(event) returns: the handler's guard is dropped
handle_return ==
    /\ Handling
    /\ LET top == call_stack[Len(call_stack)]
           h == EVENT_DISPATCHER.handlers[top.index]
       IN  /\ EVENT_DISPATCHER' = [EVENT_DISPATCHER EXCEPT !.handler_lock[h] = "free"]
           /\ call_stack' = set_top([top EXCEPT !.index = @ + 1, !.pc = "iter"])
    /\ UNCHANGED <<frame_vars, kernel_vars, translation, event_log>>

NextEvents ==
    \/ \E h \in Handlers : register(h)
    \/ \E h \in Handlers : with_clock_enter(h)
    \/ \E h \in Handlers : with_clock_leave(h)
    \/ push
    \/ dispatch_swap
    \/ dispatch_pop
    \/ dispatch_handler
    \/ handle_return

SpecEvents == InitEvents /\ [][NextEvents]_vars

(***************************************************************************)
(*                       Properties of the frame sources                   *)
(***************************************************************************)
FramesOf(seq) == {seq[i] : i \in DOMAIN seq} \ {None}

PairwiseDistinct(seq) ==
    \A i, j \in DOMAIN seq : (i < j /\ seq[i] # None /\ seq[j] # None) => seq[i] # seq[j]

\* a region the scan is meant to keep: usable, start and end multiples of 4096
UsableAligned(r) == r.kind = "Usable" /\ r.start % 4096 = 0 /\ r.end % 4096 = 0

\* two regions share at least one byte
RegionsOverlap(r, q) == r.start < q.end /\ q.start < r.end /\ r.start < r.end /\ q.start < q.end

\* the usable aligned regions of the map are pairwise disjoint
KeptRegionsDisjoint ==
    \A i, j \in DOMAIN memory_regions :
        (i < j /\ UsableAligned(memory_regions[i]) /\ UsableAligned(memory_regions[j]))
            => ~RegionsOverlap(memory_regions[i], memory_regions[j])

\* the frame based at f shares at least one byte with region r
FrameTouches(f, r) == f < r.end /\ r.start < f + 4096

\* the frame based at f lies inside region r
FrameInside(f, r) == r.start <= f /\ f + 4096 <= r.end

\* every frame any of the three producers has returned so far
ReturnedFrames ==
    FramesOf(get_usable_regions(memory_regions, 0))
        \cup FramesOf(issued.simple) \cup FramesOf(issued.queued)

\* C1 as stated: for every memory map, the frames the bootstrap source has
\* returned are pairwise distinct and each base address is a multiple of 4096.
C1_DistinctAligned_AnyMap ==
    /\ PairwiseDistinct(issued.simple)
    /\ \A f \in FramesOf(issued.simple) : f % 4096 = 0

\* C1 amended: for every memory map whose usable aligned regions are pairwise
\* disjoint, the frames the bootstrap source has returned are pairwise distinct
\* and each base address is a multiple of 4096 (the alignment holds for every map).
C1_DistinctAligned ==
    /\ KeptRegionsDisjoint => PairwiseDistinct(issued.simple)
    /\ \A f \in FramesOf(issued.simple) : f % 4096 = 0

\* C1 witness: a map with two disjoint usable aligned regions, out of order,
\* from which the bootstrap source has returned frames of both.
C1_Witness ==
    /\ KeptRegionsDisjoint
    /\ Len(memory_regions) = 2
    /\ UsableAligned(memory_regions[1]) /\ UsableAligned(memory_regions[2])
    /\ memory_regions[2].end <= memory_regions[1].start
    /\ \E f, g \in FramesOf(issued.simple) :
           FrameInside(f, memory_regions[1]) /\ FrameInside(g, memory_regions[2])

\* C2 as stated: for every memory map, no frame the queued source holds or has
\* returned is one of the frames the bootstrap source issued before it was built.
C2_QueuedDisjoint_AnyMap ==
    frame_allocator.made =>
        FramesOf(issued.simple)
            \cap (FramesOf(issued.queued) \cup FramesOf(frame_allocator.usable_frames)) = {}

\* C2 amended: over a memory map whose usable aligned regions are pairwise
\* disjoint, a queued source built with skip = the bootstrap cursor never holds
\* or returns a frame the bootstrap source issued.
C2_QueuedDisjoint ==
    (frame_allocator.made /\ KeptRegionsDisjoint) =>
        FramesOf(issued.simple)
            \cap (FramesOf(issued.queued) \cup FramesOf(frame_allocator.usable_frames)) = {}

\* C2 witness: the bootstrap source issued k >= 2 frames without running dry,
\* the queued source was built with skip = k and has returned frames.
C2_Witness ==
    /\ frame_allocator.made /\ KeptRegionsDisjoint
    /\ NoneCount(issued.simple) = 0 /\ Len(issued.simple) >= 2
    /\ issued.skip = Len(issued.simple)
    /\ Cardinality(FramesOf(issued.queued)) >= 2

\* C10 as stated: no frame returned by the scan or by either source shares a
\* byte with a region of another kind or with an unaligned usable region.
C10_NoFrameInDropped_AnyMap ==
    \A f \in ReturnedFrames : \A i \in DOMAIN memory_regions :
        ~UsableAligned(memory_regions[i]) => ~FrameTouches(f, memory_regions[i])

\* C10 amended: every frame returned by the scan or by either source lies inside
\* a usable region whose start and end are multiples of 4096, so a map without
\* such a region yields no frame; and when no dropped region overlaps a kept
\* one, no returned frame shares a byte with a dropped region.
C10_FramesFromKeptRegions ==
    /\ \A f \in ReturnedFrames : \E i \in DOMAIN memory_regions :
           UsableAligned(memory_regions[i]) /\ FrameInside(f, memory_regions[i])
    /\ (\A i, j \in DOMAIN memory_regions :
           (UsableAligned(memory_regions[i]) /\ ~UsableAligned(memory_regions[j]))
               => ~RegionsOverlap(memory_regions[i], memory_regions[j]))
        => \A f \in ReturnedFrames : \A i \in DOMAIN memory_regions :
               ~UsableAligned(memory_regions[i]) => ~FrameTouches(f, memory_regions[i])

\* C10 witness: a map holding a kept region and a dropped unaligned usable region
\* that do not overlap; both sources have returned frames.
C10_Witness ==
    /\ \E i, j \in DOMAIN memory_regions :
           /\ UsableAligned(memory_regions[i])
           /\ memory_regions[j].kind = "Usable" /\ ~UsableAligned(memory_regions[j])
           /\ ~RegionsOverlap(memory_regions[i], memory_regions[j])
    /\ \A i, j \in DOMAIN memory_regions :
           (UsableAligned(memory_regions[i]) /\ ~UsableAligned(memory_regions[j]))
               => ~RegionsOverlap(memory_regions[i], memory_regions[j])
    /\ FramesOf(issued.simple) # {} /\ FramesOf(issued.queued) # {}

(***************************************************************************)
(*                 Properties of the mapping and of HeapManager            *)
(***************************************************************************)
CeilDiv(a, b) == (a + b - 1) \div b

WindowStart(h) == IF h = "initial_heap" THEN INITIAL_HEAP_START ELSE MAIN_HEAP_START
WindowSize(h) == IF h = "initial_heap" THEN INITIAL_HEAP_SIZE ELSE MAIN_HEAP_SIZE

\* the address lies in heap h's window
InWindow(ptr, h) == WindowStart(h) <= ptr /\ ptr < WindowStart(h) + WindowSize(h)

\* the pages that share a byte with heap h's window
WindowPages(h) ==
    {p \in (WindowStart(h) \div 4096 - 1)..((WindowStart(h) + WindowSize(h)) \div 4096 + 1) :
        p * 4096 < WindowStart(h) + WindowSize(h) /\ WindowStart(h) < (p + 1) * 4096}

\* the mappings of heap h's window
WindowMappings(pt, h) == LET pages == WindowPages(h) IN {m \in pt.mapped : m.page \in pages}

BytesOverlap(a, asize, b, bsize) == a < b + bsize /\ b < a + asize

\* C3: every completed alloc call that read the flag before activation was
\* served by the bootstrap heap and returned null or an address inside the
\* bootstrap window; every one after activation was served by the main heap and
\* returned null or an address inside the main window.
C3_AllocInActiveWindow ==
    \A r \in alloc_log :
        LET h == IF r.before THEN "initial_heap" ELSE "main_heap"
        IN  r.heap = h /\ (r.ptr = NULL \/ InWindow(r.ptr, h))

\* C4: the phase flag never goes from true back to false.
C4_FlagNeverReverts == [][ALLOCATOR.initialized => ALLOCATOR'.initialized]_vars

\* C4 witness: init_allocator() has run twice, an alloc was served afterwards
\* and a dealloc is under way.
C4_Witness ==
    /\ cpu.activations = 2 /\ ALLOCATOR.initialized
    /\ \E r \in alloc_log : ~r.before /\ r.by = "main" /\ r.ptr # NULL
    /\ ctx.main.op = "dealloc" /\ ctx.main.pc = "crit"

\* C5: an alloc or dealloc of the interrupt handler never waits for a heap lock
\* that the interrupted main line holds (the main line cannot run before the
\* handler returns, so such a wait never ends).
C5_HandlerNeverSpinsOnMainLock ==
    ~(ctx.irq.pc = "lock" /\ lock[ctx.irq.heap] = "main")

\* C6 as stated: a successful init_heap_range made exactly ceil(W/4096)
\* allocate_frame calls.
C6_ExactlyCeilRequests ==
    \A h \in HeapNames :
        map_log[h].result = "Ok" => map_log[h].requests = CeilDiv(WindowSize(h), 4096)

\* C6 amended: a successful init_heap_range made ceil(W/4096) allocate_frame
\* calls for the pages of the window plus one for every page table map_to had
\* to create.
C6_RequestsPagesPlusTables ==
    \A h \in HeapNames :
        map_log[h].result = "Ok" =>
            /\ map_log[h].requests = CeilDiv(WindowSize(h), 4096) + map_log[h].new_tables
            /\ Cardinality(WindowMappings(page_table, h)) = CeilDiv(WindowSize(h), 4096)

\* C6 witness: both windows mapped, page tables created for each.
C6_Witness ==
    \A h \in HeapNames : map_log[h].result = "Ok" /\ map_log[h].new_tables > 0

\* C7: when the source held fewer frames than the mapping needed, the result is
\* FrameAllocationFailed; Ok is returned only with every page of the window mapped.
C7_ExhaustionFails ==
    \A h \in HeapNames :
        /\ (map_log[h].result # "NotCalled" /\ map_log[h].avail < map_log[h].needed)
               => map_log[h].result = "FrameAllocationFailed"
        /\ map_log[h].result = "Ok"
               => {m.page : m \in WindowMappings(page_table, h)} = WindowPages(h)

\* C7 witness: the mapping failed after it had mapped part of the window.
C7_Witness ==
    \E h \in HeapNames :
        /\ map_log[h].result = "FrameAllocationFailed"
        /\ WindowMappings(page_table, h) # {}
        /\ {m.page : m \in WindowMappings(page_table, h)} # WindowPages(h)

\* no block allocated before activation shares a byte with a free hole of either
\* heap or with another live block
PreActivationBlocksIntact ==
    \A b \in live : b.before =>
        /\ \A h \in HeapNames : \A x \in ALLOCATOR[h].holes :
               ~BytesOverlap(b.ptr, b.size, x.addr, x.size)
        /\ \A c \in live : c # b => ~BytesOverlap(b.ptr, b.size, c.ptr, c.size)

\* C8: init_allocator() and every alloc/dealloc step in state MainActive leave
\* the bootstrap heap's free list and the bootstrap window's mappings as they
\* were, and every block allocated before activation stays live at its address
\* (until its owner frees it) and is never handed out again or made a hole.
C8_BootstrapUntouched ==
    [][ALLOCATOR'.initialized =>
          /\ ALLOCATOR'.initial_heap = ALLOCATOR.initial_heap
          /\ WindowMappings(page_table', "initial_heap")
                 = WindowMappings(page_table, "initial_heap")
          /\ \A b \in live : b.before =>
                 \/ b \in live'
                 \/ \E c \in {"main", "irq"} :
                        ctx'[c].op = "dealloc" /\ ctx'[c].ptr = b.ptr /\ ctx'[c].pc = "lock"
          /\ PreActivationBlocksIntact']_vars

\* C8 witness: in state MainActive an alloc has been served while a block the
\* main line allocated before activation is still live.
C8_Witness ==
    /\ ALLOCATOR.initialized
    /\ \E b \in live : b.before /\ b.owner = "main"
    /\ \E r \in alloc_log : ~r.before /\ r.ptr # NULL

\* C9: a call of init_allocator() in state MainActive changes nothing of the
\* HeapManager (heaps, flag, locks), and after one or more calls the flag is true.
C9_ActivateIdempotent ==
    [][/\ cpu'.activations >= 1 => ALLOCATOR'.initialized
       /\ (ALLOCATOR.initialized /\ cpu'.activations = cpu.activations + 1)
              => (ALLOCATOR' = ALLOCATOR /\ lock' = lock /\ live' = live)]_vars

\* C9 witness: after the second init_allocator() a main-heap alloc succeeded.
C9_Witness ==
    /\ cpu.activations = 2
    /\ \E r \in alloc_log : ~r.before /\ r.ptr # NULL /\ InWindow(r.ptr, "main_heap")

(***************************************************************************)
(*                 Properties of the frame sources, continued              *)
(***************************************************************************)
\* frames of the usable aligned regions of a map, counted region by region
RECURSIVE KeptFrameCount(_)
KeptFrameCount(regions) ==
    IF regions = <<>> THEN 0
    ELSE (IF UsableAligned(Head(regions)) /\ Head(regions).start < Head(regions).end
            THEN (Head(regions).end - Head(regions).start) \div 4096
            ELSE 0)
         + KeptFrameCount(Tail(regions))

\* the map of the end-to-end scenario: one usable region [0x100000, 0x200000)
ScenarioMap == <<Region(256 * 4096, 512 * 4096, "Usable")>>

\* C11: with n the number of frames of the map's usable aligned regions, call
\* i <= n of a fresh bootstrap source returned a frame and every call after the
\* n-th reported exhaustion; for the map [0x100000, 0x200000) n is 256.
C11_FramesThenExhaustion ==
    /\ \A i \in DOMAIN issued.simple :
           (issued.simple[i] # None) <=> (i <= KeptFrameCount(memory_regions))
    /\ KeptFrameCount(ScenarioMap) = 256

\* C11 witness: a map of two usable aligned regions with n >= 3 frames; the
\* source has returned n frames and then reported exhaustion on call n+1.
C11_Witness ==
    /\ Len(memory_regions) = 2
    /\ UsableAligned(memory_regions[1]) /\ UsableAligned(memory_regions[2])
    /\ KeptFrameCount(memory_regions) >= 3
    /\ Len(issued.simple) = KeptFrameCount(memory_regions) + 1
    /\ issued.simple[Len(issued.simple)] = None
    /\ issued.simple[Len(issued.simple) - 1] # None

(***************************************************************************)
(*                     Properties of kernel_main's boot                    *)
(***************************************************************************)
\* this step ran init_heap_range for heap h
MapStep(h) == map_log'[h] # map_log[h]

\* this step ran Heap::init on heap h
HeapInitStep(h) == ALLOCATOR'[h].init # ALLOCATOR[h].init

\* this step built the queued frame source
QueuedStep ==
    \/ frame_allocator'.made # frame_allocator.made
    \/ issued'.skip # issued.skip
    \/ Len(frame_allocator'.usable_frames) > Len(frame_allocator.usable_frames)

\* this step called init_allocator()
ActivationStep ==
    cpu'.activations # cpu.activations \/ ALLOCATOR'.initialized # ALLOCATOR.initialized

\* C12: the memory steps of a boot happen in kernel_main's order, none of them
\* twice, each only after the one before it has succeeded: the bootstrap window
\* is mapped by the bootstrap source before anything else, the bootstrap heap
\* is initialised by the step that mapped it successfully, the queued source is
\* built after that with the bootstrap cursor, the main window is mapped by the
\* queued source, the main heap is initialised by the step that mapped it
\* successfully, and activation follows; a boot that has activated has done
\* every step.
C12_BootOrder ==
    [][/\ MapStep("initial_heap") =>
              /\ map_log["initial_heap"].result = "NotCalled"
              /\ simple_heap_allocator.next = 0 /\ issued.simple = <<>>
              /\ ~frame_allocator.made /\ map_log["main_heap"].result = "NotCalled"
              /\ ~ALLOCATOR.initialized
       /\ HeapInitStep("initial_heap") =>
              /\ ~ALLOCATOR.initial_heap.init
              /\ MapStep("initial_heap") /\ map_log'["initial_heap"].result = "Ok"
       /\ QueuedStep =>
              /\ ~frame_allocator.made
              /\ ALLOCATOR.initial_heap.init
              /\ map_log["main_heap"].result = "NotCalled" /\ ~ALLOCATOR.initialized
              /\ issued'.skip = simple_heap_allocator.next
              /\ frame_allocator'.made => frame_allocator'.next = simple_heap_allocator.next
       /\ MapStep("main_heap") =>
              /\ map_log["main_heap"].result = "NotCalled"
              /\ frame_allocator.made /\ issued.queued = <<>>
              /\ ~ALLOCATOR.initialized
       /\ HeapInitStep("main_heap") =>
              /\ ~ALLOCATOR.main_heap.init
              /\ MapStep("main_heap") /\ map_log'["main_heap"].result = "Ok"
       /\ ActivationStep =>
              /\ cpu.activations = 0 /\ cpu'.activations = 1
              /\ ~ALLOCATOR.initialized /\ ALLOCATOR'.initialized
              /\ ALLOCATOR.initial_heap.init /\ ALLOCATOR.main_heap.init
              /\ frame_allocator.made
       /\ simple_heap_allocator' # simple_heap_allocator => MapStep("initial_heap")]_vars

\* C12 witness: a boot that has done every step, and allocated from the main heap.
C12_Witness ==
    /\ cpu.activations = 1 /\ ALLOCATOR.initialized
    /\ map_log["initial_heap"].result = "Ok" /\ map_log["main_heap"].result = "Ok"
    /\ frame_allocator.made /\ issued.skip = Len(issued.simple)
    /\ \E r \in alloc_log : ~r.before /\ r.ptr # NULL

(***************************************************************************)
(*                  Properties of the mapping, continued                   *)
(***************************************************************************)
\* the mappings the page table holds for page p
MappingsOf(pt, p) == {m \in pt.mapped : m.page = p}

\* no two pages of heap h's window are mapped to the same frame
WindowFramesDistinct(pt, h) ==
    \A m, n \in WindowMappings(pt, h) : m.page # n.page => m.frame # n.frame

\* C13 as stated: after a successful init_heap_range every page of the window
\* has exactly one mapping and no two pages of the window share a frame.
C13_OneFramePerPage_AnyMap ==
    \A h \in HeapNames :
        map_log[h].result = "Ok" =>
            /\ \A p \in WindowPages(h) : Cardinality(MappingsOf(page_table, p)) = 1
            /\ WindowFramesDistinct(page_table, h)

\* C13 amended: after a successful init_heap_range every page of the window has
\* exactly one mapping, to a frame the source returned; and when the usable
\* aligned regions of the memory map are pairwise disjoint, no two pages of the
\* window share a frame.
C13_OneFramePerPage ==
    \A h \in HeapNames :
        map_log[h].result = "Ok" =>
            /\ \A p \in WindowPages(h) : Cardinality(MappingsOf(page_table, p)) = 1
            /\ \A m \in WindowMappings(page_table, h) :
                   m.frame \in FramesOf(issued.simple) \cup FramesOf(issued.queued)
            /\ KeptRegionsDisjoint => WindowFramesDistinct(page_table, h)

\* C13 witness: both windows mapped from a map of disjoint regions.
C13_Witness ==
    /\ KeptRegionsDisjoint /\ memory_regions # <<>>
    /\ \A h \in HeapNames :
           map_log[h].result = "Ok" /\ Cardinality(WindowMappings(page_table, h)) >= 2

(***************************************************************************)
(*                       Properties of the region scan                     *)
(***************************************************************************)
\* the frames start, start + 4096, ... below end of one region
FramesBelowEnd(r) ==
    IF r.start < r.end
      THEN [k \in 1..CeilDiv(r.end - r.start, 4096) |-> r.start + (k - 1) * 4096]
      ELSE <<>>

\* the frames of the usable aligned regions, region by region in map order,
\* from region i on
RECURSIVE ListedFrames(_, _)
ListedFrames(regions, i) ==
    IF i > Len(regions) THEN <<>>
    ELSE (IF UsableAligned(regions[i]) THEN FramesBelowEnd(regions[i]) ELSE <<>>)
         \o ListedFrames(regions, i + 1)

\* seq without its first k elements
Drop(seq, k) == [i \in 1..(IF Len(seq) > k THEN Len(seq) - k ELSE 0) |-> seq[i + k]]

\* C14: for every skip, get_usable_regions(regions, skip) is the listing of the
\* frames of the usable aligned regions, in map order, without its first skip
\* elements; so a scan with skip a+b is the scan with skip a without its first b
\* elements (the map never changes, so these are decided in the first state of
\* a run), and a scan is a function of its arguments: what the sources took
\* from their scans (every frame the bootstrap source returned, the collection
\* of the queued source) is what a scan with the same arguments returns now.
C14_ScanIsListing ==
    LET n == Len(ListedFrames(memory_regions, 1))
    IN  /\ (issued.simple = <<>> /\ ~frame_allocator.made) =>
               /\ \A skip \in 0..(n + 1) :
                      get_usable_regions(memory_regions, skip)
                          = Drop(ListedFrames(memory_regions, 1), skip)
               /\ \A a, b \in 0..(n + 1) :
                      get_usable_regions(memory_regions, a + b)
                          = Drop(get_usable_regions(memory_regions, a), b)
        /\ \A i \in DOMAIN issued.simple :
               issued.simple[i] = first_of(get_usable_regions(memory_regions, i - 1))
        /\ frame_allocator.made =>
               frame_allocator.usable_frames
                   = Drop(get_usable_regions(memory_regions, issued.skip),
                          Len(issued.queued))

\* C14 witness: a map that lists two usable aligned regions out of address
\* order and a region the scan drops; scans with skip 0, 1, 2 have been taken
\* by the bootstrap source and a scan with skip 3 by the queued source.
C14_Witness ==
    /\ Len(memory_regions) = 2
    /\ \E i \in DOMAIN memory_regions : UsableAligned(memory_regions[i])
    /\ Len(ListedFrames(memory_regions, 1)) >= 4
    /\ Len(issued.simple) = 3 /\ frame_allocator.made /\ issued.skip = 3
    /\ frame_allocator.usable_frames # <<>>

(***************************************************************************)
(*                   Properties of HeapManager, continued                  *)
(***************************************************************************)
OtherHeap(h) == IF h = "initial_heap" THEN "main_heap" ELSE "initial_heap"

\* heap h has a free hole of at least `size` bytes
CanSatisfy(m, h, size) == \E x \in m[h].holes : x.size >= size

\* context c returns from alloc in this step
AllocReturns(c) == ctx[c].op = "alloc" /\ ctx[c].pc = "crit" /\ ctx'[c].pc # "crit"

\* C15: an alloc works on the one heap the flag selected when it was called and
\* never changes the other heap; when that heap has no hole large enough the
\* call returns null from this one attempt, leaving both heaps and the live
\* blocks as they were, also when the other heap could have served it; an
\* address it does return was the start of a hole of the selected heap.
C15_NoFallback ==
    [][\A c \in {"main", "irq"} : AllocReturns(c) =>
           LET h == ctx[c].heap
               rec == [before |-> ctx[c].before, heap |-> h, ptr |-> NULL, by |-> c]
           IN  /\ h = (IF ctx[c].before THEN "initial_heap" ELSE "main_heap")
               /\ ALLOCATOR'[OtherHeap(h)] = ALLOCATOR[OtherHeap(h)]
               /\ ~CanSatisfy(ALLOCATOR, h, ctx[c].size) =>
                      /\ ALLOCATOR' = ALLOCATOR /\ live' = live
                      /\ alloc_log' = alloc_log \cup {rec}
               /\ \A r \in alloc_log' \ alloc_log :
                      r.ptr # NULL => \E x \in ALLOCATOR[h].holes : x.addr = r.ptr]_vars

\* C15 witness: a null was returned in state Bootstrapped, and a null was
\* returned in state MainActive by the full main heap while the bootstrap heap
\* has a hole of that size.
C15_Witness ==
    /\ \E r \in alloc_log : r.before /\ r.ptr = NULL /\ r.heap = "initial_heap"
    /\ \E r \in alloc_log : ~r.before /\ r.ptr = NULL /\ r.heap = "main_heap"
    /\ ALLOCATOR.initialized
    /\ CanSatisfy(ALLOCATOR, "initial_heap", FrameSize \div 2)
    /\ ~CanSatisfy(ALLOCATOR, "main_heap", FrameSize \div 2)

\* context c is inside an alloc or dealloc call
InCall(c) == ctx[c].pc \in {"lock", "crit"}

\* C16: a context inside alloc or dealloc waits for or holds the lock of the one
\* heap the flag selected when the call read it, which is the heap of the
\* current state, and holds no other lock: in state MainActive no call waits
\* for or holds the bootstrap heap's lock, in state Bootstrapped none the main
\* heap's.
C16_OneLockPerCall ==
    /\ \A c \in {"main", "irq"} : InCall(c) =>
           /\ ctx[c].heap = (IF ctx[c].before THEN "initial_heap" ELSE "main_heap")
           /\ ctx[c].before = ~ALLOCATOR.initialized
           /\ lock[OtherHeap(ctx[c].heap)] # c
           /\ (ctx[c].pc = "crit") <=> (lock[ctx[c].heap] = c)
    /\ \A h \in HeapNames : lock[h] # "free" =>
           /\ InCall(lock[h]) /\ ctx[lock[h]].heap = h
           /\ h = (IF ALLOCATOR.initialized THEN "main_heap" ELSE "initial_heap")

\* C16 witness: in state MainActive the main line is inside dealloc holding the
\* main heap's lock, the handler's alloc waits for that lock, and calls were
\* served in state Bootstrapped before.
C16_Witness ==
    /\ ALLOCATOR.initialized
    /\ ctx.main.pc = "crit" /\ ctx.main.op = "dealloc" /\ lock["main_heap"] = "main"
    /\ ctx.irq.pc = "lock" /\ ctx.irq.heap = "main_heap"
    /\ lock["initial_heap"] = "free"
    /\ \E r \in alloc_log : r.before /\ r.ptr # NULL

\* what the callers of init_heap_range ask for: init_initial_heap and
\* init_main_heap pass the mapper, the frame source, start and size of a kernel
\* heap window (heap.rs:101, 112); neither asks for user access
CallerRequestedFlags(h) == {"PRESENT", "WRITABLE"}

\* C17: every mapping of a heap window carries exactly the flags its caller
\* asked for: present and writable, user-accessible only on request.
C17_FlagsAsRequested ==
    \A h \in HeapNames : \A m \in WindowMappings(page_table, h) :
        m.flags = CallerRequestedFlags(h)

(***************************************************************************)
(*             Properties of the frame sources: order and cursor           *)
(***************************************************************************)
\* the frames of seq, exhaustion reports left out, are in strictly increasing order
StrictlyIncreasing(seq) ==
    \A i, j \in DOMAIN seq : (i < j /\ seq[i] # None /\ seq[j] # None) => seq[i] < seq[j]

\* the usable aligned regions are listed in ascending address order, each
\* ending before the next begins
KeptRegionsAscending ==
    \A i, j \in DOMAIN memory_regions :
        (i < j /\ UsableAligned(memory_regions[i]) /\ UsableAligned(memory_regions[j]))
            => memory_regions[i].end <= memory_regions[j].start

\* C18 as stated: for every memory map the frames the bootstrap source has
\* returned are in strictly increasing address order.
C18_Increasing_AnyMap == StrictlyIncreasing(issued.simple)

\* C18 amended: when the map lists its usable aligned regions in ascending
\* address order without overlap, the frames the bootstrap source has returned
\* are in strictly increasing address order.
C18_Increasing == KeptRegionsAscending => StrictlyIncreasing(issued.simple)

\* C18 witness: two usable aligned regions in ascending order; the source has
\* returned frames of both and then run dry.
C18_Witness ==
    /\ KeptRegionsAscending /\ Len(memory_regions) = 2
    /\ UsableAligned(memory_regions[1]) /\ UsableAligned(memory_regions[2])
    /\ \E f, g \in FramesOf(issued.simple) :
           FrameInside(f, memory_regions[1]) /\ FrameInside(g, memory_regions[2])
    /\ NoneCount(issued.simple) >= 1

\* number of frames among what a source returned so far
FramesIssued(seq) == Len(seq) - NoneCount(seq)

\* C19: the cursor of each frame source equals its initial cursor (0 for the
\* bootstrap source, the skip it was built with for the queued source) plus the
\* number of frames it has issued, also after calls that reported exhaustion.
C19_CursorCountsFrames ==
    /\ simple_heap_allocator.next = FramesIssued(issued.simple)
    /\ frame_allocator.made =>
           frame_allocator.next = issued.skip + FramesIssued(issued.queued)

\* element k (counted from 0) of seq, None past its end
ElementAt(seq, k) == IF k + 1 \in DOMAIN seq THEN seq[k + 1] ELSE None

\* the i-th allocate() of each source (i from 0) returned element cursor + i of
\* get_usable_regions(regions, 0), the queued source was built with the
\* bootstrap source's cursor, and it holds the rest of the scan in order
QueuedContinuesScan ==
    LET scan == get_usable_regions(memory_regions, 0)
    IN  /\ \A i \in DOMAIN issued.simple : issued.simple[i] = ElementAt(scan, i - 1)
        /\ frame_allocator.made =>
               /\ issued.skip = Len(issued.simple)
               /\ \A i \in DOMAIN issued.queued :
                      issued.queued[i] = ElementAt(scan, issued.skip + i - 1)
               /\ frame_allocator.usable_frames
                      = Drop(scan, issued.skip + Len(issued.queued))

\* C20 as stated: the queued source continues the scan where the bootstrap
\* source stopped, its collection is duplicate-free and, over both sources, no
\* frame is returned twice.
C20_ContinuesNoDuplicates_AnyMap ==
    /\ QueuedContinuesScan
    /\ frame_allocator.made =>
           /\ PairwiseDistinct(frame_allocator.usable_frames)
           /\ PairwiseDistinct(issued.simple \o issued.queued)

\* C20 amended: on every map the queued source continues the scan where the
\* bootstrap source stopped, no element skipped; when the usable aligned
\* regions of the map are pairwise disjoint its collection is duplicate-free
\* and, over both sources, no frame is returned twice.
C20_ContinuesNoDuplicates ==
    /\ QueuedContinuesScan
    /\ (frame_allocator.made /\ KeptRegionsDisjoint) =>
           /\ PairwiseDistinct(frame_allocator.usable_frames)
           /\ PairwiseDistinct(issued.simple \o issued.queued)

\* C20 witness: over two disjoint usable aligned regions the bootstrap source
\* issued frames, the queued source was built with its cursor, returned the
\* rest of the scan and then ran dry.
C20_Witness ==
    /\ KeptRegionsDisjoint /\ Len(memory_regions) = 2
    /\ UsableAligned(memory_regions[1]) /\ UsableAligned(memory_regions[2])
    /\ frame_allocator.made /\ issued.skip >= 1 /\ NoneCount(issued.simple) = 0
    /\ FramesIssued(issued.queued) >= 2 /\ NoneCount(issued.queued) >= 1
    /\ issued.skip + FramesIssued(issued.queued)
           = Len(get_usable_regions(memory_regions, 0))

(***************************************************************************)
(*             Properties of the two sources stepped side by side          *)
(***************************************************************************)
\* C21: built over the same map with the same starting cursor and stepped side
\* by side, the bootstrap source and the queued source have returned the same
\* result on every call (the same frame, or both exhaustion) and hold equal
\* cursors.
C21_SourcesAgree ==
    /\ issued.simple = issued.queued
    /\ simple_heap_allocator.next = frame_allocator.next
    /\ simple_heap_allocator.next = issued.skip + Len(issued.simple)

\* C21 witness: from starting cursor 1 over two usable aligned regions both
\* sources have returned three or more frames and then reported exhaustion twice.
C21_Witness ==
    /\ issued.skip = 1 /\ Len(memory_regions) = 2
    /\ UsableAligned(memory_regions[1]) /\ UsableAligned(memory_regions[2])
    /\ FramesIssued(issued.simple) >= 3 /\ FramesIssued(issued.queued) >= 3
    /\ NoneCount(issued.simple) = 2 /\ NoneCount(issued.queued) = 2

(***************************************************************************)
(*                 Properties of a failed or finished mapping              *)
(***************************************************************************)
\* what the frame source of heap h's mapping has returned
SourceLog(h) == IF h = "initial_heap" THEN issued.simple ELSE issued.queued

\* the pages of heap h's window that are mapped
MappedWindowPages(pt, h) == {m.page : m \in WindowMappings(pt, h)}

\* C22: after init_heap_range failed on frame exhaustion, the request that
\* reported exhaustion is the last request the source received; the mapped
\* pages of the window are the pages before the failing one, each mapped once
\* to a frame the source returned, and no later page is mapped.
C22_FailureStopsAtOnce ==
    \A h \in HeapNames :
        map_log[h].result = "FrameAllocationFailed" =>
            LET log == SourceLog(h)
                k == Cardinality(MappedWindowPages(page_table, h))
            IN  /\ Len(log) >= 1 /\ log[Len(log)] = None /\ NoneCount(log) = 1
                /\ k < Cardinality(WindowPages(h))
                /\ MappedWindowPages(page_table, h)
                       = {p \in WindowPages(h) : p < WindowStart(h) \div 4096 + k}
                /\ \A p \in MappedWindowPages(page_table, h) :
                       /\ Cardinality(MappingsOf(page_table, p)) = 1
                       /\ \A m \in MappingsOf(page_table, p) : m.frame \in FramesOf(log)
                /\ map_log[h].requests \in {k + map_log[h].new_tables + 1,
                                            k + map_log[h].new_tables + 2}

\* C22 witness: the mapping of a window failed at its second or a later page:
\* the first page is mapped, the last is not, the source was asked once more
\* and reported exhaustion.
C22_Witness ==
    \E h \in HeapNames :
        /\ map_log[h].result = "FrameAllocationFailed"
        /\ WindowStart(h) \div 4096 \in MappedWindowPages(page_table, h)
        /\ MappedWindowPages(page_table, h) # WindowPages(h)
        /\ NoneCount(SourceLog(h)) = 1

\* C23: a heap whose free list has been installed covers exactly its window,
\* its mapping returned Ok and every page of the window is mapped; a heap whose
\* mapping failed is uninitialised and has no free space.
C23_InitializedHeapIsMapped ==
    \A h \in HeapNames :
        /\ ALLOCATOR[h].init =>
               /\ map_log[h].result = "Ok"
               /\ ALLOCATOR[h].bottom = WindowStart(h) /\ ALLOCATOR[h].size = WindowSize(h)
               /\ \A p \in WindowPages(h) : MappingsOf(page_table, p) # {}
        /\ map_log[h].result \notin {"Ok", "NotCalled"} =>
               ~ALLOCATOR[h].init /\ ALLOCATOR[h].holes = {}

\* C23 witness: the bootstrap heap is initialised over its mapped window and
\* has served an alloc; the main window's mapping failed and the main heap is
\* uninitialised.
C23_Witness ==
    /\ ALLOCATOR.initial_heap.init /\ ~ALLOCATOR.main_heap.init
    /\ map_log["main_heap"].result = "FrameAllocationFailed"
    /\ MappedWindowPages(page_table, "initial_heap") = WindowPages("initial_heap")
    /\ \E r \in alloc_log : r.heap = "initial_heap" /\ r.ptr # NULL

(***************************************************************************)
(*                     Properties of a failed boot phase                   *)
(***************************************************************************)
\* the .expect() message of the phase that maps heap h
PhaseMessage(h) == IF h = "initial_heap" THEN InitialHeapExpect ELSE MainHeapExpect

\* the logged diagnostic contains the text
DiagnosticNames(text) == \E i \in DOMAIN cpu.diagnostic : cpu.diagnostic[i] = text

\* C24: when the mapping of a heap window failed, the boot is halted, the
\* diagnostic it logged names that phase, no later boot step has run and
\* init_allocator() was not executed.
C24_FailedPhaseHaltsNamed ==
    \A h \in HeapNames :
        map_log[h].result = "FrameAllocationFailed" =>
            /\ cpu.halted /\ ~cpu.interrupts
            /\ ~ALLOCATOR.initialized /\ cpu.activations = 0 /\ ~ALLOCATOR[h].init
            /\ h = "initial_heap" =>
                   ~frame_allocator.made /\ map_log["main_heap"].result = "NotCalled"
            /\ DiagnosticNames(PhaseMessage(h))

(***************************************************************************)
(*                    Properties of dealloc across phases                  *)
(***************************************************************************)
\* C25: a dealloc under way works on the heap its block was allocated from,
\* and every hole of a heap's free list lies inside that heap's window (so no
\* bootstrap block is ever in the main heap's list).
C25_DeallocToOwnHeap ==
    /\ \A c \in DOMAIN ctx :
           (ctx[c].op = "dealloc" /\ ctx[c].pc \in {"lock", "crit"}) =>
               InWindow(ctx[c].ptr, ctx[c].heap)
    /\ \A h \in HeapNames : \A x \in ALLOCATOR[h].holes : InWindow(x.addr, h)

(***************************************************************************)
(*             Properties of the cursor handed to the queued source        *)
(***************************************************************************)
\* the cursor init_initial_heap returned equals the number of allocate_frame
\* calls the bootstrap source served, those for pages and those map_to made
\* for page tables, and the queued source was built with it
CursorCountsTableFrames ==
    map_log["initial_heap"].result = "Ok" =>
        /\ simple_heap_allocator.next = map_log["initial_heap"].requests
        /\ map_log["initial_heap"].requests
               = map_log["initial_heap"].pages + map_log["initial_heap"].new_tables
        /\ simple_heap_allocator.next = Len(issued.simple)
        /\ frame_allocator.made => issued.skip = simple_heap_allocator.next

\* the queued source neither holds nor has returned a frame the bootstrap
\* source handed out for a bootstrap heap page or a page table
QueuedAvoidsBootstrapFrames ==
    frame_allocator.made =>
        /\ FramesOf(frame_allocator.usable_frames) \cap FramesOf(issued.simple) = {}
        /\ FramesOf(issued.queued) \cap FramesOf(issued.simple) = {}

\* C26 as stated: the cursor counts every request, page-table frames included,
\* and the queued source built from it never re-issues a frame of the
\* bootstrap mapping.
C26_CursorCoversTables_AnyMap == CursorCountsTableFrames /\ QueuedAvoidsBootstrapFrames

\* C26 amended: the cursor counts every request, page-table frames included,
\* on every map; the queued source built from it never re-issues a frame of
\* the bootstrap mapping when the usable aligned regions of the map are
\* pairwise disjoint.
C26_CursorCoversTables ==
    /\ CursorCountsTableFrames
    /\ KeptRegionsDisjoint => QueuedAvoidsBootstrapFrames

\* C26 witness: on a map of disjoint regions the bootstrap mapping took frames
\* for page tables too, and the queued source built from the cursor has mapped
\* the main window.
C26_Witness ==
    /\ KeptRegionsDisjoint
    /\ map_log["initial_heap"].result = "Ok" /\ map_log["initial_heap"].new_tables >= 1
    /\ frame_allocator.made /\ issued.skip > map_log["initial_heap"].pages
    /\ map_log["main_heap"].result = "Ok"

(***************************************************************************)
(*              Properties of the queued source's collection               *)
(***************************************************************************)
\* C27: the boot never halts between a successful init_initial_heap and the
\* construction of the queued source, i.e. the allocation of the source's
\* collection from the bootstrap heap never fails.
C27_QueueFitsBootstrapHeap ==
    (map_log["initial_heap"].result = "Ok" /\ ~frame_allocator.made) => ~cpu.halted

(***************************************************************************)
(*                        Properties of exhaustion                         *)
(***************************************************************************)
\* every call after a call that returned None returned None
ExhaustionPermanent(seq) ==
    \A i, j \in DOMAIN seq : (i < j /\ seq[i] = None) => seq[j] = None

\* C28: for the bootstrap source and for the queued source, once an
\* allocate_frame() call has reported exhaustion every later call on that
\* source has reported exhaustion too.
C28_ExhaustionIsPermanent ==
    /\ ExhaustionPermanent(issued.simple)
    /\ ExhaustionPermanent(issued.queued)

\* C28 witness: both sources returned frames, then reported exhaustion, and
\* were called again.
C28_Witness ==
    /\ FramesIssued(issued.simple) >= 1 /\ NoneCount(issued.simple) >= 2
    /\ FramesIssued(issued.queued) >= 1 /\ NoneCount(issued.queued) >= 2

(***************************************************************************)
(*                     Properties of the two windows                       *)
(***************************************************************************)
\* the half-open ranges [a, a + asize) and [b, b + bsize) share no address
RangesDisjoint(a, asize, b, bsize) == a + asize <= b \/ b + bsize <= a

\* C29: the bootstrap window and the main window do not overlap, with the
\* constants of heap.rs and of memory.rs and with the windows the boot maps;
\* no page is mapped by both heap mappings: every mapped page lies in exactly
\* one window and no init_heap_range call found a page already mapped.
C29_WindowsDisjoint ==
    /\ RangesDisjoint(heap_rs_INITIAL_HEAP_START, heap_rs_INITIAL_HEAP_SIZE,
                      heap_rs_MAIN_HEAP_START, heap_rs_MAIN_HEAP_SIZE)
    /\ RangesDisjoint(memory_rs_INITIAL_HEAP_START, memory_rs_INITIAL_HEAP_SIZE,
                      memory_rs_MAIN_HEAP_START, memory_rs_MAIN_HEAP_SIZE)
    /\ RangesDisjoint(INITIAL_HEAP_START, INITIAL_HEAP_SIZE, MAIN_HEAP_START, MAIN_HEAP_SIZE)
    /\ WindowPages("initial_heap") \cap WindowPages("main_heap") = {}
    /\ \A m \in page_table.mapped :
           Cardinality({h \in HeapNames : m.page \in WindowPages(h)}) = 1
    /\ \A h \in HeapNames : map_log[h].result # "PageAlreadyMapped"

\* C29 witness: both init_heap_range calls returned Ok and the page table
\* holds one mapping for every page of either window.
C29_Witness ==
    /\ map_log["initial_heap"].result = "Ok" /\ map_log["main_heap"].result = "Ok"
    /\ MappedWindowPages(page_table, "initial_heap") = WindowPages("initial_heap")
    /\ MappedWindowPages(page_table, "main_heap") = WindowPages("main_heap")
    /\ Cardinality(page_table.mapped) = InitialHeapPages + MainHeapPages

(***************************************************************************)
(*                     Properties of the TLB flushes                       *)
(***************************************************************************)
\* C30: the mapper's operations come in pairs, the installation of a page's
\* mapping directly followed by the flush of that page's TLB entry, so each
\* page is flushed before the next page is mapped and before init_heap_range
\* returns; the pages installed are the pages mapped, and all are flushed.
C30_FlushAfterEachMapping ==
    LET ev == page_table.events
    IN  /\ Len(ev) % 2 = 0
        /\ \A i \in 1..(Len(ev) \div 2) :
               /\ ev[2 * i - 1].op = "map" /\ ev[2 * i].op = "flush"
               /\ ev[2 * i].page = ev[2 * i - 1].page
        /\ {ev[i].page : i \in DOMAIN ev} = {m.page : m \in page_table.mapped}
        /\ page_table.flushed = {m.page : m \in page_table.mapped}

\* C30 witness: both init_heap_range calls have returned and every page of
\* both windows was installed and flushed.
C30_Witness ==
    /\ Len(page_table.events) = 2 * (InitialHeapPages + MainHeapPages)
    /\ Cardinality(page_table.flushed) = InitialHeapPages + MainHeapPages
    /\ map_log["main_heap"].result = "Ok"

(***************************************************************************)
(*                Properties of the address translation                    *)
(***************************************************************************)
\* the sum of the two arguments of the translation made
TranslationSum == translation.offset + translation.physical_address

\* the sum fits the width and its sign bit and the bits above are all 0 or all 1
SumIsCanonical ==
    /\ TranslationSum < Pow2(AddressBits)
    /\ \/ TranslationSum < Pow2(VirtualBits - 1)
       \/ TranslationSum >= Pow2(AddressBits) - Pow2(VirtualBits - 1)

\* the sum has the sign bit set and every bit above it clear
SumHasOnlySignBit ==
    Pow2(VirtualBits - 1) <= TranslationSum /\ TranslationSum < Pow2(VirtualBits)

\* C31 as stated: for every offset and physical address the translation
\* yields offset + physical_address.
C31_AlwaysTheSum ==
    translation.done => (~translation.panicked /\ translation.virt = TranslationSum)

\* C31 amended: the translation yields offset + physical_address when that sum
\* is a canonical address; when the sum has only the sign bit set it yields
\* the sum sign-extended; in every other case it yields no address equal to
\* the sum: it panics or, when the addition wrapped, works on the wrapped sum.
C31_TheSumWhenCanonical ==
    translation.done =>
        /\ SumIsCanonical => (~translation.panicked /\ translation.virt = TranslationSum)
        /\ SumHasOnlySignBit =>
               /\ ~translation.panicked
               /\ translation.virt
                      = TranslationSum + Pow2(AddressBits) - Pow2(VirtualBits)
        /\ (~SumIsCanonical /\ ~SumHasOnlySignBit) =>
               /\ translation.panicked \/ translation.virt # TranslationSum
               /\ TranslationSum < Pow2(AddressBits) => translation.panicked

\* C31 witness: a physical address was translated with an offset in the upper
\* half of the address space and the result is the sum.
C31_Witness ==
    /\ translation.done /\ ~translation.panicked
    /\ translation.offset >= Pow2(AddressBits) - Pow2(VirtualBits - 1)
    /\ translation.physical_address > 0
    /\ translation.virt = translation.offset + translation.physical_address

(***************************************************************************)
(*                 Properties of the queued event dispatcher               *)
(***************************************************************************)
\* how often event e was delivered to handler h
Deliveries(h, e) ==
    Cardinality({i \in DOMAIN event_log.delivered[h] : event_log.delivered[h][i] = e})

\* no push() or dispatch() is in progress
Quiescent == call_stack = <<>>

\* C32: every handler has received events in push order, none twice; and once
\* every dispatch() has returned with the queue empty, every event pushed
\* after a handler was registered has been delivered to that handler.
C32_EveryEventDelivered ==
    /\ \A h \in Handlers : StrictlyIncreasing(event_log.delivered[h])
    /\ (Quiescent /\ EVENT_DISPATCHER.queue = <<>>) =>
           \A i \in DOMAIN EVENT_DISPATCHER.handlers :
               LET h == EVENT_DISPATCHER.handlers[i]
               IN  \A e \in (event_log.registered_at[h] + 1)..event_log.pushed :
                       Deliveries(h, e) = 1

\* C33: while no push() or dispatch() is in progress, a non-empty queue has
\* new_event set.
C33_FlagSetWhileQueued ==
    (Quiescent /\ EVENT_DISPATCHER.queue # <<>>) => EVENT_DISPATCHER.new_event

=============================================================================
